---------------------------- MODULE Spec2Model ----------------------------
(***************************************************************************)
(* A model of rx52 (src/src/lib.rs), a host-side driver for the Saitek /   *)
(* Logitech X52 and X52 Pro.  The driver turns typed requests (LED colour, *)
(* MFD text, clock offset) into vendor control transfers.                  *)
(*                                                                         *)
(* The USB transport (rusb) is the environment: each call to it either     *)
(* succeeds or fails with a rusb error, chosen nondeterministically.  The  *)
(* variable wire records every call made to the transport during one       *)
(* driver operation, in order, and result records what the operation       *)
(* returned.                                                               *)
(***************************************************************************)
EXTENDS Integers, Sequences, FiniteSets, TLC

VARIABLES
    attached,   \* the USB devices the context enumerates (ctx.devices())
    driver,     \* X52Driver.device: index into attached, 0 before construction
    pc,         \* the caller's position: "start", "bound" or "returned"
    call,       \* the operation last invoked, with its arguments
    wire,       \* the transport calls made by that operation, in order
    result      \* the Result that operation returned

vars == <<attached, driver, pc, call, wire, result>>

----------------------------------------------------------------------------
(* Bounds of the model *)

\* the largest number of attached devices enumerated
MaxDevices == 2
\* clock offsets are drawn from -MaxOffset..MaxOffset and the i16 extremes
MaxOffset == 1450
\* the number of ASCII bytes of a display text is at most MaxTextLen
MaxTextLen == 18

----------------------------------------------------------------------------
(* Machine integers: u16 arithmetic as Rust computes it *)

U16 == 65536

\* a cast that keeps the magnitude of a negative number instead of wrapping it
AsU16_magnitude(x) == IF x < 0 THEN -x ELSE x

\* `x as u16` for an i16 or u8 x: the value modulo 2^16
AsU16(x) == x % U16

RECURSIVE Pow2(_)
Pow2(n) == IF n = 0 THEN 1 ELSE 2 * Pow2(n - 1)

\* a << n on u16 (n < 16): bits shifted out are lost
Shl16(a, n) == (a * Pow2(n)) % U16

RECURSIVE BitOr(_, _, _)
BitOr(a, b, bits) ==
    IF bits = 0 THEN 0
    ELSE (IF a % 2 = 1 \/ b % 2 = 1 THEN 1 ELSE 0)
         + 2 * BitOr(a \div 2, b \div 2, bits - 1)

\* a | b on u16
Or16(a, b) == BitOr(a, b, 16)

\* bit n of a
Bit(a, n) == (a \div Pow2(n)) % 2

I16Min == -32768
I16Max == 32767

----------------------------------------------------------------------------
(* Enumerations *)

X52DeviceType == {"X52Pro", "X52"}
X52ColoredLedStatus == {"Off", "Green", "Red", "Amber"}
X52OnOffLedStatus == {"Off", "On"}
X52ColoredLed == {"A", "B", "D", "E", "T1", "T3", "T5", "PovHat", "Clutch"}
X52OnOffLed == {"Fire", "Throttle"}
X52MFDLine == {"Line1", "Line2", "Line3"}
X52DateFormat == {"DDMMYY", "MMDDYY", "YYMMDD"}
ErrorId == {"NoX52sFound", "NotAPro", "DeviceNotX52", "BusDeviceNotFound",
            "MFDLineTooLong", "MFDNotASCII", "ClockOffsetTooBig"}

\* the rusb errors the model lets the transport return
RusbError == {"Busy", "Timeout"}

----------------------------------------------------------------------------
(* Protocol constants *)

SAITEK_ID == 1699                     \* 0x06A3

POSSIBLE_DESCRIPTORS ==
    << [x52_type |-> "X52",    vendor |-> SAITEK_ID, product |-> 549],   \* 0x0225
       [x52_type |-> "X52",    vendor |-> SAITEK_ID, product |-> 1884],  \* 0x075C
       [x52_type |-> "X52Pro", vendor |-> SAITEK_ID, product |-> 1890] >> \* 0x0762

LED_SET_COMMAND == 184                \* 0xB8
MFD_CLEAR_LINE_COMMAND == 8           \* 0x08
MFD_LINE_SIZE == 16
CLOCK_2_OFFSET_COMMAND == 193         \* 0xC1
CLOCK_3_OFFSET_COMMAND == 194         \* 0xC2
SET_DAY_MONTH_COMMAND == 196          \* 0xC4
SET_YEAR_COMMAND == 200               \* 0xC8

----------------------------------------------------------------------------
(* Errors *)

\* Error::new(id, msg)
ErrorNew(id, msg) == [maybe_id |-> id, source |-> "None", msg |-> msg]

\* rusb::Error's Display text
RusbToString(e) ==
    CASE e = "Busy" -> <<"Resource busy">>
      [] e = "Timeout" -> <<"Operation timed out">>

\* impl From<rusb::Error> for Error
ErrorFromRusb(e) == [maybe_id |-> "None", source |-> e, msg |-> RusbToString(e)]

NoError == [maybe_id |-> "None", source |-> "None", msg |-> <<>>]

\* a Result: Ok(value) or Err(error)
Ok(v) == [ok |-> TRUE, value |-> v, err |-> NoError]
Err(e) == [ok |-> FALSE, value |-> "None", err |-> e]
NoResult == [ok |-> FALSE, value |-> "Pending", err |-> NoError]

----------------------------------------------------------------------------
(* The transport.  io is the transcript of one operation: the calls made so *)
(* far, the rusb error that ended them (if any), and the environment's      *)
(* choice of which call fails and how.                                      *)

NewIo(failAt, failWith) ==
    [wire |-> <<>>, err |-> "None", failAt |-> failAt, failWith |-> failWith]

\* one call to rusb: recorded on the wire, failing iff it is call number failAt
TransportCall(io, kind, index, value) ==
    LET n == Len(io.wire) + 1
        bad == (n = io.failAt)
    IN  [io EXCEPT !.wire = Append(@, [kind |-> kind, index |-> index,
                                      value |-> value, ok |-> ~bad,
                                      err |-> IF bad THEN io.failWith
                                              ELSE "None"]),
                   !.err = IF bad THEN io.failWith ELSE "None"]

\* self.device.open()
DeviceOpen(io) == TransportCall(io, "open", 0, 0)

\* device.write_control(.., X52_VENDOR_REQUEST, value, index, ..)?
do_vendor_command(io, index, value) == TransportCall(io, "control", index, value)

\* the Result<(), Error> of an operation whose transport calls are io
IoResult(io) == IF io.err = "None" THEN Ok("Unit") ELSE Err(ErrorFromRusb(io.err))

\* do_vendor_command(&self.device.open()?, index, value)
OpenAndCommand(io, index, value) ==
    LET io1 == DeviceOpen(io)
    IN  IF io1.err # "None" THEN io1 ELSE do_vendor_command(io1, index, value)

----------------------------------------------------------------------------
(* Descriptor catalog and discovery *)

\* descriptors compared by product ID alone
eq_descriptor_product_only(x, other) == x.product = other.product

\* X52Descriptor::eq_descriptor
eq_descriptor(x, other) == x.vendor = other.vendor /\ x.product = other.product

\* the catalog entries matching a descriptor, in catalog order
CatalogMatches(descriptor) ==
    {i \in 1..Len(POSSIBLE_DESCRIPTORS) :
        eq_descriptor(POSSIBLE_DESCRIPTORS[i], descriptor)}

Least(S) == CHOOSE i \in S : \A j \in S : i <= j

is_descriptor_x52(descriptor) == CatalogMatches(descriptor) # {}

\* POSSIBLE_DESCRIPTORS.iter().find(..).map(|x| x.x52_type).ok_or(DeviceNotX52)
get_x52_type_from_descriptor(descriptor) ==
    IF CatalogMatches(descriptor) # {}
    THEN Ok(POSSIBLE_DESCRIPTORS[Least(CatalogMatches(descriptor))].x52_type)
    ELSE Err(ErrorNew("DeviceNotX52",
                      <<"The given descriptor ID is not an X52",
                        descriptor.vendor, descriptor.product>>))

\* ctx.devices()?.iter().find(bus and address match).ok_or(BusDeviceNotFound)
find_device_from_bus_device(io, devs, bus, device) ==
    LET io1 == TransportCall(io, "devices", 0, 0)
        hits == {i \in 1..Len(devs) :
                    devs[i].bus = bus /\ devs[i].address = device}
    IN  IF io1.err # "None" THEN [io |-> io1, res |-> IoResult(io1)]
        ELSE IF hits = {}
        THEN [io |-> io1,
              res |-> Err(ErrorNew("BusDeviceNotFound",
                                   <<"No device found at Bus Device", bus, device>>))]
        ELSE [io |-> io1, res |-> Ok(Least(hits))]

\* X52Driver::new_from_bus_device; Ok carries the index of the bound device
new_from_bus_device(io, devs, bus, device) ==
    LET io1 == TransportCall(io, "context", 0, 0)
        found == find_device_from_bus_device(io1, devs, bus, device)
        io3 == TransportCall(found.io, "descriptor", 0, 0)
    IN  IF io1.err # "None" THEN [io |-> io1, res |-> IoResult(io1)]
        ELSE IF ~found.res.ok THEN found
        ELSE IF io3.err # "None" THEN [io |-> io3, res |-> IoResult(io3)]
        ELSE IF is_descriptor_x52(devs[found.res.value])
        THEN [io |-> io3, res |-> Ok(found.res.value)]
        ELSE [io |-> io3,
              res |-> Err(ErrorNew("DeviceNotX52",
                                   <<"The device at Bus Device is not an X52",
                                     bus, device>>))]

\* X52Driver::x52_type
x52_type(io, dev) ==
    LET io1 == TransportCall(io, "descriptor", 0, 0)
    IN  IF io1.err # "None" THEN [io |-> io1, res |-> IoResult(io1)]
        ELSE [io |-> io1, res |-> get_x52_type_from_descriptor(dev)]

\* the variant read but never compared
ensure_x52_is_pro_unchecked(io, dev) ==
    LET t == x52_type(io, dev)
    IN  IF ~t.res.ok THEN t ELSE [io |-> t.io, res |-> Ok("Unit")]

ensure_x52_is_pro(io, dev) ==
    LET t == x52_type(io, dev)
    IN  IF ~t.res.ok THEN t
        ELSE IF t.res.value = "X52"
        THEN [io |-> t.io,
              res |-> Err(ErrorNew("NotAPro",
                                   <<"The device at Bus Device is not an X52 Pro",
                                     dev.bus, dev.address>>))]
        ELSE [io |-> t.io, res |-> Ok("Unit")]

----------------------------------------------------------------------------
(* Command encoder *)

map_on_off_led_to_value(led) ==
    CASE led = "Fire" -> 1
      [] led = "Throttle" -> 20

\* the (red, green) selectors of a bicolor LED
map_colored_led_to_value(led) ==
    CASE led = "A" -> <<2, 3>>
      [] led = "B" -> <<4, 5>>
      [] led = "D" -> <<6, 7>>
      [] led = "E" -> <<8, 9>>
      [] led = "T1" -> <<10, 11>>
      [] led = "T3" -> <<12, 13>>
      [] led = "T5" -> <<14, 15>>
      [] led = "PovHat" -> <<16, 17>>
      [] led = "Clutch" -> <<18, 19>>

map_on_off_led_status_to_value(status) ==
    CASE status = "Off" -> 0
      [] status = "On" -> 1

\* the colours with the red and green channels exchanged
map_colored_led_status_to_value_swapped(status) ==
    CASE status = "Off" -> <<0, 0>>
      [] status = "Red" -> <<0, 1>>
      [] status = "Green" -> <<1, 0>>
      [] status = "Amber" -> <<1, 1>>

\* the (red, green) bits of a colour
map_colored_led_status_to_value(status) ==
    CASE status = "Off" -> <<0, 0>>
      [] status = "Red" -> <<1, 0>>
      [] status = "Green" -> <<0, 1>>
      [] status = "Amber" -> <<1, 1>>

map_mfd_line_to_value(line) ==
    CASE line = "Line1" -> 209      \* 0xD1
      [] line = "Line2" -> 210      \* 0xD2
      [] line = "Line3" -> 212      \* 0xD4

----------------------------------------------------------------------------
(* LED operations *)

toggle_led_on_off(io, dev, led, status) ==
    LET e == ensure_x52_is_pro(io, dev)
        io1 == DeviceOpen(e.io)
        io2 == do_vendor_command(io1, LED_SET_COMMAND,
                   Shl16(map_on_off_led_to_value(led), 8)
                       + map_on_off_led_status_to_value(status))
    IN  IF ~e.res.ok THEN e
        ELSE IF io1.err # "None" THEN [io |-> io1, res |-> IoResult(io1)]
        ELSE [io |-> io2, res |-> IoResult(io2)]

\* the second transfer sent whatever became of the first
toggle_led_colored_no_abort(io, dev, led, status) ==
    LET e == ensure_x52_is_pro(io, dev)
        io1 == DeviceOpen(e.io)
        io2 == do_vendor_command(io1, LED_SET_COMMAND,
                   Shl16(map_colored_led_to_value(led)[1], 8)
                       + map_colored_led_status_to_value(status)[1])
        io3 == do_vendor_command(io2, LED_SET_COMMAND,
                   Shl16(map_colored_led_to_value(led)[2], 8)
                       + map_colored_led_status_to_value(status)[2])
    IN  IF ~e.res.ok THEN e
        ELSE IF io1.err # "None" THEN [io |-> io1, res |-> IoResult(io1)]
        ELSE [io |-> io3, res |-> IoResult(io3)]

toggle_led_colored(io, dev, led, status) ==
    LET e == ensure_x52_is_pro(io, dev)
        io1 == DeviceOpen(e.io)
        io2 == do_vendor_command(io1, LED_SET_COMMAND,
                   Shl16(map_colored_led_to_value(led)[1], 8)
                       + map_colored_led_status_to_value(status)[1])
        io3 == do_vendor_command(io2, LED_SET_COMMAND,
                   Shl16(map_colored_led_to_value(led)[2], 8)
                       + map_colored_led_status_to_value(status)[2])
    IN  IF ~e.res.ok THEN e
        ELSE IF io1.err # "None" THEN [io |-> io1, res |-> IoResult(io1)]
        ELSE IF io2.err # "None" THEN [io |-> io2, res |-> IoResult(io2)]
        ELSE [io |-> io3, res |-> IoResult(io3)]

----------------------------------------------------------------------------
(* MFD text *)

\* the ASCII check left out
is_ascii_unchecked(text) == TRUE

\* str::is_ascii
is_ascii(text) == \A i \in 1..Len(text) : text[i] < 128

Spaces(n) == [i \in 1..n |-> 32]

\* centring with the odd space leading
format_center16_odd_leading(text) ==
    LET pad == IF Len(text) >= MFD_LINE_SIZE THEN 0 ELSE MFD_LINE_SIZE - Len(text)
    IN  Spaces((pad + 1) \div 2) \o text \o Spaces(pad \div 2)

\* format!("{:^16}", text) for an ASCII text: centred, the odd space trailing
format_center16(text) ==
    LET pad == IF Len(text) >= MFD_LINE_SIZE THEN 0 ELSE MFD_LINE_SIZE - Len(text)
    IN  Spaces(pad \div 2) \o text \o Spaces((pad + 1) \div 2)

\* the pair packed with the first character in the high byte
PackChars_first_high(text) == Or16(Shl16(text[1], 8), text[2])

\* (text.as_bytes()[1] as u16) << 8 | text.as_bytes()[0] as u16
PackChars(text) == Or16(Shl16(text[2], 8), text[1])

RECURSIVE write_mfd_line(_, _, _)
write_mfd_line(io, line, text) ==
    IF Len(text) = 0 THEN io
    ELSE LET io1 == do_vendor_command(io, map_mfd_line_to_value(line),
                        PackChars(text))
         IN  IF io1.err # "None" THEN io1
             ELSE write_mfd_line(io1, line, SubSeq(text, 3, Len(text)))

clear_mfd_line(io, line) ==
    LET io1 == OpenAndCommand(io,
                   Or16(MFD_CLEAR_LINE_COMMAND, map_mfd_line_to_value(line)), 0)
    IN  [io |-> io1, res |-> IoResult(io1)]

\* the length check made before the ASCII check
set_mfd_text_length_first(io, line, text) ==
    LET c == clear_mfd_line(io, line)
        io1 == DeviceOpen(c.io)
        io2 == write_mfd_line(io1, line, format_center16(text))
    IN  IF Len(text) > MFD_LINE_SIZE
        THEN [io |-> io,
              res |-> Err(ErrorNew("MFDLineTooLong",
                                   <<"The text is too long to fit on the MFD", text>>))]
        ELSE IF ~is_ascii(text)
        THEN [io |-> io,
              res |-> Err(ErrorNew("MFDNotASCII",
                                   <<"The text contains non-ASCII characters", text>>))]
        ELSE IF ~c.res.ok THEN c
        ELSE IF io1.err # "None" THEN [io |-> io1, res |-> IoResult(io1)]
        ELSE [io |-> io2, res |-> IoResult(io2)]

set_mfd_text(io, line, text) ==
    LET c == clear_mfd_line(io, line)
        io1 == DeviceOpen(c.io)
        io2 == write_mfd_line(io1, line, format_center16(text))
    IN  IF ~is_ascii(text)
        THEN [io |-> io,
              res |-> Err(ErrorNew("MFDNotASCII",
                                   <<"The text contains non-ASCII characters", text>>))]
        ELSE IF Len(text) > MFD_LINE_SIZE
        THEN [io |-> io,
              res |-> Err(ErrorNew("MFDLineTooLong",
                                   <<"The text is too long to fit on the MFD", text>>))]
        ELSE IF ~c.res.ok THEN c
        ELSE IF io1.err # "None" THEN [io |-> io1, res |-> IoResult(io1)]
        ELSE [io |-> io2, res |-> IoResult(io2)]

----------------------------------------------------------------------------
(* Clock offsets *)

\* the range check with the bounds themselves excluded
set_clock_2_offset_exclusive(io, offset, use_24h) ==
    IF offset <= -1440 \/ offset >= 1440
    THEN [io |-> io,
          res |-> Err(ErrorNew("ClockOffsetTooBig",
                               <<"Clock 2 offset too large", offset>>))]
    ELSE LET io1 == OpenAndCommand(io, CLOCK_2_OFFSET_COMMAND,
                        Or16(Shl16(IF use_24h THEN 1 ELSE 0, 15),
                             IF offset > 0
                             THEN Or16(Shl16(1, 10), AsU16(-offset))
                             ELSE AsU16(offset)))
         IN  [io |-> io1, res |-> IoResult(io1)]

set_clock_2_offset(io, offset, use_24h) ==
    IF offset < -1440 \/ offset > 1440
    THEN [io |-> io,
          res |-> Err(ErrorNew("ClockOffsetTooBig",
                               <<"Clock 2 offset too large", offset>>))]
    ELSE LET io1 == OpenAndCommand(io, CLOCK_2_OFFSET_COMMAND,
                        Or16(Shl16(IF use_24h THEN 1 ELSE 0, 15),
                             IF offset > 0
                             THEN Or16(Shl16(1, 10), AsU16(-offset))
                             ELSE AsU16(offset)))
         IN  [io |-> io1, res |-> IoResult(io1)]

set_clock_3_offset(io, offset, use_24h) ==
    IF offset < -1440 \/ offset > 1440
    THEN [io |-> io,
          res |-> Err(ErrorNew("ClockOffsetTooBig",
                               <<"Clock 3 offset too large", offset>>))]
    ELSE LET io1 == OpenAndCommand(io, CLOCK_3_OFFSET_COMMAND,
                        Or16(Shl16(IF use_24h THEN 1 ELSE 0, 15),
                             IF offset > 0
                             THEN Or16(Shl16(1, 10), AsU16(-offset))
                             ELSE AsU16(offset)))
         IN  [io |-> io1, res |-> IoResult(io1)]

----------------------------------------------------------------------------
(* Date *)

\* X52Driver::set_date: two commands, each on a device opened for it
set_date(io, day, month, year, format) ==
    LET io1 == OpenAndCommand(io, SET_DAY_MONTH_COMMAND,
                   CASE format = "DDMMYY" -> Or16(Shl16(month, 8), day)
                     [] format = "MMDDYY" -> Or16(Shl16(day, 8), month)
                     [] format = "YYMMDD" -> Or16(Shl16(month, 8), year))
        io2 == OpenAndCommand(io1, SET_YEAR_COMMAND,
                   CASE format = "DDMMYY" -> year
                     [] format = "MMDDYY" -> year
                     [] format = "YYMMDD" -> day)
    IN  IF io1.err # "None" THEN [io |-> io1, res |-> IoResult(io1)]
        ELSE [io |-> io2, res |-> IoResult(io2)]

----------------------------------------------------------------------------
(* Inputs *)

\* days, months and two-digit years handed to set_date (each a u8)
Days == {1, 31}
Months == {1, 12}
Years == {0, 99}

\* bus numbers and addresses of the model
Slots == {<<1, 2>>, <<1, 3>>, <<2, 2>>}

\* (vendor, product) pairs of attached devices: the three catalog pairs, a
\* Saitek product outside the catalog, and another vendor's product 0x0762
DescriptorChoices ==
    {<<SAITEK_ID, 549>>, <<SAITEK_ID, 1884>>, <<SAITEK_ID, 1890>>,
     <<SAITEK_ID, 1891>>, <<1133, 1890>>}

Devices ==
    {[bus |-> s[1], address |-> s[2], vendor |-> d[1], product |-> d[2]] :
        s \in Slots, d \in DescriptorChoices}

\* enumerations of at most MaxDevices devices, no two at one bus and address
AttachedLists ==
    UNION {{a \in [1..n -> Devices] :
               \A i, j \in 1..n :
                   (a[i].bus = a[j].bus /\ a[i].address = a[j].address) => i = j} :
           n \in 0..MaxDevices}

Offsets == (-MaxOffset..MaxOffset) \cup {I16Min, I16Max}

\* ASCII texts of n bytes: letters ascending from 'A' or descending from 'z'
AsciiText(n, p) == [i \in 1..n |-> IF p = 1 THEN 64 + i ELSE 123 - i]

\* t with the two UTF-8 bytes of U+00E9 inserted before position b
WithNonAscii(t, b) == SubSeq(t, 1, b - 1) \o <<195, 169>> \o SubSeq(t, b, Len(t))

Texts ==
    {AsciiText(n, p) : n \in 0..MaxTextLen, p \in 1..2}
    \cup UNION {{WithNonAscii(AsciiText(n, p), b) : b \in 1..(n + 1)} :
                n \in 0..MaxTextLen, p \in 1..2}

\* the environment's choices for an operation that makes at most n transport
\* calls: none fails, or call number f fails with rusb error e
FailChoices(n) == {<<0, "Busy">>} \cup ((1..n) \X RusbError)

NoCall ==
    [op |-> "none", bus |-> 0, device |-> 0, led |-> "", status |-> "",
     line |-> "", text |-> <<>>, offset |-> 0, use_24h |-> FALSE,
     day |-> 0, month |-> 0, year |-> 0, format |-> ""]

\* the Result as the caller sees it: unit and driver values are not compared
Returned(res) == [res EXCEPT !.value = IF res.ok THEN "Ok" ELSE "None"]

----------------------------------------------------------------------------
(* Actions: one per public operation *)

Init ==
    /\ attached \in AttachedLists
    /\ driver = 0
    /\ pc = "start"
    /\ call = NoCall
    /\ wire = <<>>
    /\ result = NoResult

NewFromBusDevice ==
    /\ pc = "start"
    /\ \E bus \in {s[1] : s \in Slots}, device \in {s[2] : s \in Slots},
          fc \in FailChoices(3) :
        LET r == new_from_bus_device(NewIo(fc[1], fc[2]), attached, bus, device)
        IN  /\ call' = [NoCall EXCEPT !.op = "new_from_bus_device",
                                     !.bus = bus, !.device = device]
            /\ wire' = r.io.wire
            /\ result' = Returned(r.res)
            /\ driver' = IF r.res.ok THEN r.res.value ELSE 0
            /\ pc' = IF r.res.ok THEN "bound" ELSE "start"
            /\ UNCHANGED attached

X52Type ==
    /\ pc = "bound"
    /\ \E fc \in FailChoices(1) :
        LET r == x52_type(NewIo(fc[1], fc[2]), attached[driver])
        IN  /\ call' = [NoCall EXCEPT !.op = "x52_type"]
            /\ wire' = r.io.wire
            /\ result' = r.res
            /\ pc' = "returned"
            /\ UNCHANGED <<attached, driver>>

ToggleLedOnOff ==
    /\ pc = "bound"
    /\ \E led \in X52OnOffLed, status \in X52OnOffLedStatus, fc \in FailChoices(3) :
        LET r == toggle_led_on_off(NewIo(fc[1], fc[2]), attached[driver], led, status)
        IN  /\ call' = [NoCall EXCEPT !.op = "toggle_led_on_off",
                                     !.led = led, !.status = status]
            /\ wire' = r.io.wire
            /\ result' = Returned(r.res)
            /\ pc' = "returned"
            /\ UNCHANGED <<attached, driver>>

ToggleLedColored ==
    /\ pc = "bound"
    /\ \E led \in X52ColoredLed, status \in X52ColoredLedStatus, fc \in FailChoices(4) :
        LET r == toggle_led_colored(NewIo(fc[1], fc[2]), attached[driver], led, status)
        IN  /\ call' = [NoCall EXCEPT !.op = "toggle_led_colored",
                                     !.led = led, !.status = status]
            /\ wire' = r.io.wire
            /\ result' = Returned(r.res)
            /\ pc' = "returned"
            /\ UNCHANGED <<attached, driver>>

ClearMfdLine ==
    /\ pc = "bound"
    /\ \E line \in X52MFDLine, fc \in FailChoices(2) :
        LET r == clear_mfd_line(NewIo(fc[1], fc[2]), line)
        IN  /\ call' = [NoCall EXCEPT !.op = "clear_mfd_line", !.line = line]
            /\ wire' = r.io.wire
            /\ result' = Returned(r.res)
            /\ pc' = "returned"
            /\ UNCHANGED <<attached, driver>>

SetMfdText ==
    /\ pc = "bound"
    /\ \E line \in X52MFDLine, text \in Texts, fc \in FailChoices(11) :
        LET r == set_mfd_text(NewIo(fc[1], fc[2]), line, text)
        IN  /\ call' = [NoCall EXCEPT !.op = "set_mfd_text",
                                     !.line = line, !.text = text]
            /\ wire' = r.io.wire
            /\ result' = Returned(r.res)
            /\ pc' = "returned"
            /\ UNCHANGED <<attached, driver>>

SetClock2Offset ==
    /\ pc = "bound"
    /\ \E offset \in Offsets, use_24h \in BOOLEAN, fc \in FailChoices(2) :
        LET r == set_clock_2_offset(NewIo(fc[1], fc[2]), offset, use_24h)
        IN  /\ call' = [NoCall EXCEPT !.op = "set_clock_2_offset",
                                     !.offset = offset, !.use_24h = use_24h]
            /\ wire' = r.io.wire
            /\ result' = Returned(r.res)
            /\ pc' = "returned"
            /\ UNCHANGED <<attached, driver>>

SetClock3Offset ==
    /\ pc = "bound"
    /\ \E offset \in Offsets, use_24h \in BOOLEAN, fc \in FailChoices(2) :
        LET r == set_clock_3_offset(NewIo(fc[1], fc[2]), offset, use_24h)
        IN  /\ call' = [NoCall EXCEPT !.op = "set_clock_3_offset",
                                     !.offset = offset, !.use_24h = use_24h]
            /\ wire' = r.io.wire
            /\ result' = Returned(r.res)
            /\ pc' = "returned"
            /\ UNCHANGED <<attached, driver>>

SetDate ==
    /\ pc = "bound"
    /\ \E day \in Days, month \in Months, year \in Years,
          format \in X52DateFormat, fc \in FailChoices(4) :
        LET r == set_date(NewIo(fc[1], fc[2]), day, month, year, format)
        IN  /\ call' = [NoCall EXCEPT !.op = "set_date", !.day = day,
                                     !.month = month, !.year = year,
                                     !.format = format]
            /\ wire' = r.io.wire
            /\ result' = Returned(r.res)
            /\ pc' = "returned"
            /\ UNCHANGED <<attached, driver>>

\* discovery and the LED operations, over every enumeration of devices
Next == NewFromBusDevice \/ X52Type \/ ToggleLedOnOff \/ ToggleLedColored

Spec == Init /\ [][Next]_vars

\* a driver just constructed for the one attached device, a catalog device
InitBound ==
    /\ attached \in {a \in AttachedLists :
                        /\ Len(a) = 1 /\ is_descriptor_x52(a[1])
                        /\ a[1].bus = 1 /\ a[1].address = 2}
    /\ LET r == new_from_bus_device(NewIo(0, "Busy"), attached,
                                    attached[1].bus, attached[1].address)
       IN  /\ driver = r.res.value
           /\ wire = r.io.wire
           /\ result = Returned(r.res)
           /\ call = [NoCall EXCEPT !.op = "new_from_bus_device",
                                    !.bus = attached[1].bus,
                                    !.device = attached[1].address]
    /\ pc = "bound"

NextMfd == ClearMfdLine \/ SetMfdText

\* the MFD operations on a constructed driver
SpecMfd == InitBound /\ [][NextMfd]_vars

NextMulti == ToggleLedColored \/ SetDate \/ SetMfdText

\* the operations that send more than one transfer, on a constructed driver
SpecMulti == InitBound /\ [][NextMulti]_vars

NextClock == SetClock2Offset \/ SetClock3Offset

\* the clock offset operations on a constructed driver
SpecClock == InitBound /\ [][NextClock]_vars

----------------------------------------------------------------------------
(* Reading the transcript *)

IsControl(ev) == ev.kind = "control"
IsOpen(ev) == ev.kind = "open"

\* the control transfers issued by the last operation, in order
Controls == SelectSeq(wire, IsControl)
\* the device opens attempted by the last operation
Opens == SelectSeq(wire, IsOpen)

\* a | b on 16 bits, bit by bit
BitwiseOr16(a, b) ==
    LET ones == {i \in 0..15 : Bit(a, i) = 1 \/ Bit(b, i) = 1}
        RECURSIVE Sum(_)
        Sum(S) == IF S = {} THEN 0
                  ELSE LET i == CHOOSE x \in S : TRUE IN Pow2(i) + Sum(S \ {i})
    IN  Sum(ones)

ClockOps == {"set_clock_2_offset", "set_clock_3_offset"}

ClockReturned == pc = "returned" /\ call.op \in ClockOps

OffsetInRange == -1440 <= call.offset /\ call.offset <= 1440

----------------------------------------------------------------------------
(* Claims about the clock offsets (SpecClock) *)

\* C1: a clock 2/3 offset within -1440..1440 passes validation: the call does
\* not fail with ClockOffsetTooBig, it opens the device and, the device once
\* open, issues exactly one control transfer, with index 0xC1 for clock 2 and
\* 0xC2 for clock 3.  An offset outside that range fails with
\* ClockOffsetTooBig, and the device is neither opened nor sent a transfer.
C1_OffsetValidation ==
    ClockReturned =>
        IF OffsetInRange
        THEN /\ result.err.maybe_id # "ClockOffsetTooBig"
             /\ Len(wire) >= 1 /\ wire[1].kind = "open"
             /\ Len(Opens) = 1
             /\ Len(Controls) <= 1
             /\ wire[1].ok =>
                   /\ Len(Controls) = 1
                   /\ Controls[1].index =
                          IF call.op = "set_clock_2_offset" THEN 193 ELSE 194
        ELSE /\ ~result.ok
             /\ result.err.maybe_id = "ClockOffsetTooBig"
             /\ wire = <<>>

\* clock 3 set to the largest offset allowed, 1440, and the transfer sent
C1_Witness ==
    /\ ClockReturned /\ call.op = "set_clock_3_offset" /\ call.offset = 1440
    /\ Len(Controls) = 1 /\ Controls[1].index = 194 /\ result.ok

\* enc(o) of claim C2
EncodedOffset(o) ==
    IF o > 0 THEN BitwiseOr16(1024, (-o) % 65536) ELSE o % 65536

\* C2: for every in-range offset o and flag use_24h, the value transmitted by
\* set_clock_2_offset and by set_clock_3_offset is (use_24h << 15) | enc(o),
\* enc(o) = (1 << 10) | ((-o) mod 2^16) for o > 0 and o mod 2^16 for o <= 0.
C2_OffsetEncoding ==
    (ClockReturned /\ OffsetInRange) =>
        \A k \in 1..Len(Controls) :
            Controls[k].value =
                BitwiseOr16(IF call.use_24h THEN 32768 ELSE 0,
                            EncodedOffset(call.offset))

\* a positive offset above 1024, where bit 10 is not already set in -o
C2_Witness ==
    /\ ClockReturned /\ call.op = "set_clock_2_offset" /\ call.offset = 1440
    /\ ~call.use_24h
    /\ Len(Controls) = 1 /\ Controls[1].value = 65120

\* C3: for a positive in-range offset o and use_24h = false, the value
\* transmitted by set_clock_2_offset is (1 << 10) | o: bit 15 clear, bit 10
\* the direction flag, the low bits the magnitude (0x045A for o = 90).
C3_PositiveOffsetMagnitude ==
    (/\ ClockReturned /\ call.op = "set_clock_2_offset"
     /\ OffsetInRange /\ call.offset > 0 /\ ~call.use_24h) =>
        \A k \in 1..Len(Controls) :
            /\ Controls[k].value = BitwiseOr16(1024, call.offset)
            /\ Bit(Controls[k].value, 15) = 0

----------------------------------------------------------------------------
(* Claims about the MFD text (SpecMfd) *)

MfdTextReturned == pc = "returned" /\ call.op = "set_mfd_text"

AllAscii(t) == \A i \in 1..Len(t) : t[i] <= 127

\* t padded with spaces to 16 bytes, floor((16 - n) / 2) of them leading
PaddedLine(t) ==
    LET lead == (16 - Len(t)) \div 2
    IN  [i \in 1..16 |-> IF i > lead /\ i <= lead + Len(t) THEN t[i - lead] ELSE 32]

LineOpcode == [Line1 |-> 209, Line2 |-> 210, Line3 |-> 212]
ClearIndex == [Line1 |-> 217, Line2 |-> 218, Line3 |-> 220]

\* C5 as stated: every text longer than 16 bytes fails with MFDLineTooLong,
\* whatever else is true of it.
C5_TooLongWhateverElse ==
    (MfdTextReturned /\ Len(call.text) > 16) =>
        ~result.ok /\ result.err.maybe_id = "MFDLineTooLong"

\* C5, amended: every ASCII text longer than 16 bytes fails with
\* MFDLineTooLong; a text longer than 16 bytes that contains a non-ASCII byte
\* fails with MFDNotASCII, the ASCII check being made first.
C5_TooLongAfterAscii ==
    (MfdTextReturned /\ Len(call.text) > 16) =>
        /\ ~result.ok
        /\ result.err.maybe_id =
               IF AllAscii(call.text) THEN "MFDLineTooLong" ELSE "MFDNotASCII"

\* an ASCII text of 17 bytes rejected as too long
C5_Witness ==
    /\ MfdTextReturned /\ Len(call.text) = 17 /\ AllAscii(call.text)
    /\ result.err.maybe_id = "MFDLineTooLong"

\* C6: a text that contains a non-ASCII byte or is longer than 16 bytes makes
\* set_mfd_text fail without any call to the transport: no open, no clear
\* transfer, no text transfer; a text with a non-ASCII byte fails with
\* MFDNotASCII.
C6_ValidationBeforeTransfer ==
    (MfdTextReturned /\ (~AllAscii(call.text) \/ Len(call.text) > 16)) =>
        /\ wire = <<>>
        /\ ~result.ok
        /\ result.err.maybe_id \in {"MFDNotASCII", "MFDLineTooLong"}
        /\ ~AllAscii(call.text) => result.err.maybe_id = "MFDNotASCII"

\* a text of at most 16 bytes with a non-ASCII character, rejected
C6_Witness ==
    /\ MfdTextReturned /\ ~AllAscii(call.text) /\ Len(call.text) <= 16
    /\ result.err.maybe_id = "MFDNotASCII" /\ wire = <<>>

\* C7: for an ASCII text of at most 16 bytes, when no transport call fails,
\* set_mfd_text issues exactly 9 control transfers: the clear transfer (index
\* 0x08 | line opcode, value 0), then 8 text transfers with the line opcode
\* as index, the k-th carrying bytes 2k and 2k+1 (from 0) of the text padded
\* to 16 bytes with floor((16 - n) / 2) leading spaces.
C7_NineTransfers ==
    (MfdTextReturned /\ AllAscii(call.text) /\ Len(call.text) <= 16 /\ result.ok) =>
        /\ Len(Controls) = 9
        /\ Controls[1].index = ClearIndex[call.line] /\ Controls[1].value = 0
        /\ wire[2] = Controls[1]
        /\ SubSeq(wire, 4, Len(wire)) = SubSeq(Controls, 2, 9)
        /\ \A k \in 1..8 :
              /\ Controls[k + 1].index = LineOpcode[call.line]
              /\ {Controls[k + 1].value % 256, Controls[k + 1].value \div 256}
                     = {PaddedLine(call.text)[2 * k - 1], PaddedLine(call.text)[2 * k]}

\* a text of odd length written in full
C7_Witness ==
    /\ MfdTextReturned /\ Len(call.text) = 3 /\ result.ok /\ Len(Controls) = 9

\* the text transfers of the last set_mfd_text call
TextTransfers == SubSeq(Controls, 2, Len(Controls))

\* C8 as stated: each text transfer carries its pair as
\* value = byte1 | (byte0 << 8), byte0 the earlier character.
C8_EarlierCharHigh ==
    (MfdTextReturned /\ AllAscii(call.text) /\ Len(call.text) <= 16) =>
        \A k \in 1..Len(TextTransfers) :
            /\ TextTransfers[k].value \div 256 = PaddedLine(call.text)[2 * k - 1]
            /\ TextTransfers[k].value % 256 = PaddedLine(call.text)[2 * k]

\* the bytes of the transfers, each decoded as (low byte, high byte)
RECURSIVE DecodeLowHigh(_)
DecodeLowHigh(ts) ==
    IF ts = <<>> THEN <<>>
    ELSE <<Head(ts).value % 256, Head(ts).value \div 256>> \o DecodeLowHigh(Tail(ts))

\* C8, amended: each text transfer carries its pair as
\* value = byte0 | (byte1 << 8), byte0 the earlier character, so decoding each
\* emitted value as (low byte, high byte) and concatenating in emission order
\* reproduces the padded line: all 16 bytes when the 8 transfers were sent.
C8_EarlierCharLow ==
    (MfdTextReturned /\ AllAscii(call.text) /\ Len(call.text) <= 16) =>
        /\ \A k \in 1..Len(TextTransfers) :
              TextTransfers[k].value =
                  PaddedLine(call.text)[2 * k - 1] + 256 * PaddedLine(call.text)[2 * k]
        /\ DecodeLowHigh(TextTransfers) =
               SubSeq(PaddedLine(call.text), 1, 2 * Len(TextTransfers))
        /\ result.ok => DecodeLowHigh(TextTransfers) = PaddedLine(call.text)

\* a full line of 16 distinct characters written and decoded
C8_Witness ==
    /\ MfdTextReturned /\ Len(call.text) = 16 /\ result.ok
    /\ call.text[1] # call.text[2]
    /\ DecodeLowHigh(TextTransfers) = call.text

----------------------------------------------------------------------------
(* Claims about the variant check, the LEDs and discovery (Spec) *)

\* the variant the catalog gives a (vendor, product) pair, "None" outside it
CatalogVariant(vendor, product) ==
    IF vendor = 1699 /\ product = 1890 THEN "X52Pro"
    ELSE IF vendor = 1699 /\ product \in {549, 1884} THEN "X52"
    ELSE "None"

\* the variant of the device the driver is bound to
DriverVariant == CatalogVariant(attached[driver].vendor, attached[driver].product)

LedReturned ==
    pc = "returned" /\ call.op \in {"toggle_led_on_off", "toggle_led_colored"}

\* the first transport call of a Pro-only operation: reading the descriptor
DescriptorRead == Len(wire) >= 1 /\ wire[1].kind = "descriptor" /\ wire[1].ok

\* C4: toggle_led_on_off and toggle_led_colored on a driver whose descriptor
\* resolves to the Base variant fail with NotAPro for every LED and status,
\* the device is never opened and no control transfer is issued; on a Pro
\* device the variant check passes: the device is opened and, once open, sent
\* the transfers.
C4_ProOnlyRejectedBeforeTransfer ==
    LedReturned =>
        /\ DriverVariant \in {"X52", "X52Pro"}
        /\ DriverVariant = "X52" =>
              /\ ~result.ok
              /\ Opens = <<>> /\ Controls = <<>>
              /\ DescriptorRead => result.err.maybe_id = "NotAPro"
        /\ DriverVariant = "X52Pro" =>
              /\ result.err.maybe_id # "NotAPro"
              /\ DescriptorRead =>
                    /\ Len(Opens) = 1 /\ wire[2].kind = "open"
                    /\ wire[2].ok => Len(Controls) >= 1

\* a colour requested of a Base X52 and refused
C4_Witness ==
    /\ LedReturned /\ call.op = "toggle_led_colored" /\ DriverVariant = "X52"
    /\ attached[driver].product = 1884
    /\ result.err.maybe_id = "NotAPro" /\ Len(wire) = 1

RedSelector ==
    [A |-> 2, B |-> 4, D |-> 6, E |-> 8, T1 |-> 10, T3 |-> 12, T5 |-> 14,
     PovHat |-> 16, Clutch |-> 18]

RedBit == [Off |-> 0, Red |-> 1, Green |-> 0, Amber |-> 1]
GreenBit == [Off |-> 0, Red |-> 0, Green |-> 1, Amber |-> 1]

\* C9: toggle_led_colored on a Pro device issues two control transfers, both
\* with index 0xB8, the red channel then the green one: the first carries
\* (redSelector << 8) | redBit, the second (greenSelector << 8) | greenBit,
\* greenSelector = redSelector + 1, and the bits are Off = (0,0), Red = (1,0),
\* Green = (0,1), Amber = (1,1).  There are exactly two when the device opens
\* and the first transfer succeeds, and never more.
C9_RedThenGreen ==
    (pc = "returned" /\ call.op = "toggle_led_colored") =>
        /\ Len(Controls) <= 2
        /\ \A k \in 1..Len(Controls) : Controls[k].index = 184
        /\ Len(Controls) >= 1 =>
              Controls[1].value = 256 * RedSelector[call.led] + RedBit[call.status]
        /\ Len(Controls) = 2 =>
              Controls[2].value =
                  256 * (RedSelector[call.led] + 1) + GreenBit[call.status]
        /\ (DriverVariant = "X52Pro" /\ Len(Controls) >= 1 /\ Controls[1].ok) =>
              Len(Controls) = 2
        /\ (DriverVariant = "X52Pro" /\ Len(Opens) = 1 /\ Opens[1].ok) =>
              Len(Controls) >= 1
        /\ result.ok => (DriverVariant = "X52Pro" /\ Len(Controls) = 2)

\* the clutch LED set green: 0x1200 then 0x1301
C9_Witness ==
    /\ pc = "returned" /\ call.op = "toggle_led_colored"
    /\ call.led = "Clutch" /\ call.status = "Green" /\ result.ok
    /\ Len(Controls) = 2 /\ Controls[1].value = 4608 /\ Controls[2].value = 4865

\* the attached devices at the bus and address of the last call
AtBusDevice ==
    {i \in 1..Len(attached) :
        attached[i].bus = call.bus /\ attached[i].address = call.device}

\* C10: new_from_bus_device fails with BusDeviceNotFound when no attached
\* device has that bus and address, whatever else is attached; fails with
\* DeviceNotX52 when the device there has a (vendor, product) pair outside
\* the catalog; otherwise returns a driver for that device whose x52_type()
\* is the catalog variant of the pair.  Each outcome is that of a call whose
\* transport calls before it (context, enumeration, descriptor) succeed.
C10_ResolveByBusDevice ==
    /\ call.op = "new_from_bus_device" =>
          LET enumerated == Len(wire) >= 2 /\ wire[1].ok /\ wire[2].ok
              described == Len(wire) = 3 /\ wire[3].ok
          IN  /\ (enumerated /\ AtBusDevice = {}) =>
                    /\ ~result.ok /\ result.err.maybe_id = "BusDeviceNotFound"
                    /\ Len(wire) = 2
              /\ (enumerated /\ AtBusDevice # {}) =>
                    /\ Len(wire) = 3
                    /\ result.err.maybe_id # "BusDeviceNotFound"
              /\ (described /\ AtBusDevice # {}) =>
                    \E i \in AtBusDevice :
                        IF CatalogVariant(attached[i].vendor, attached[i].product) = "None"
                        THEN /\ ~result.ok /\ result.err.maybe_id = "DeviceNotX52"
                             /\ driver = 0
                        ELSE /\ result.ok /\ driver = i /\ pc = "bound"
                             /\ x52_type(NewIo(0, "Busy"), attached[driver]).res.ok
                             /\ x52_type(NewIo(0, "Busy"), attached[driver]).res.value
                                    = CatalogVariant(attached[i].vendor,
                                                     attached[i].product)
              /\ result.ok => (described /\ AtBusDevice # {})
    /\ (pc = "returned" /\ call.op = "x52_type" /\ result.ok) =>
          result.value = DriverVariant

\* a Pro found as the second of two devices enumerated
C10_Witness ==
    /\ call.op = "new_from_bus_device" /\ result.ok /\ pc = "bound"
    /\ Len(attached) = 2 /\ driver = 2
    /\ attached[1].product = 1890 /\ attached[1].vendor # 1699
    /\ attached[2].product = 1890 /\ attached[2].vendor = 1699

----------------------------------------------------------------------------
(* Claims about transport failures (SpecMulti) *)

MultiOps == {"toggle_led_colored", "set_date", "set_mfd_text"}

MultiReturned == pc = "returned" /\ call.op \in MultiOps

\* the positions of the transport calls that failed
Failed == {i \in 1..Len(wire) : ~wire[i].ok}

\* the transport calls the last operation makes when none of them fails
FailureFree ==
    CASE call.op = "toggle_led_colored" ->
             toggle_led_colored(NewIo(0, "Busy"), attached[driver],
                                call.led, call.status).io.wire
      [] call.op = "set_date" ->
             set_date(NewIo(0, "Busy"), call.day, call.month, call.year,
                      call.format).io.wire
      [] call.op = "set_mfd_text" ->
             set_mfd_text(NewIo(0, "Busy"), call.line, call.text).io.wire

\* C11: in toggle_led_colored, set_date and set_mfd_text, when a device open
\* or a control transfer fails, it is the last call made to the transport:
\* no later transfer is issued and the failed one is not retried; the calls
\* made before it are those of the operation without failure, none undone;
\* and the operation returns that failure as a transport error: no ErrorId,
\* the rusb error the transport returned, and its message.
C11_FirstFailureEndsOperation ==
    MultiReturned =>
        /\ \A i \in Failed : i = Len(wire)
        /\ Len(wire) <= Len(FailureFree)
        /\ \A i \in 1..Len(wire) :
              /\ wire[i].kind = FailureFree[i].kind
              /\ wire[i].index = FailureFree[i].index
              /\ wire[i].value = FailureFree[i].value
        /\ Failed # {} =>
              /\ ~result.ok
              /\ result.err.maybe_id = "None"
              /\ result.err.source \in RusbError
              /\ result.err.source = wire[Len(wire)].err
              /\ result.err.msg = RusbToString(wire[Len(wire)].err)
        /\ Failed = {} =>
              \/ result.ok /\ wire = FailureFree
              \/ ~result.ok /\ result.err.maybe_id # "None" /\ wire = <<>>
              \/ ~result.ok /\ result.err.maybe_id = "NotAPro" /\ Len(wire) = 1

\* a line write whose fifth text transfer times out: the clear transfer and
\* four text transfers stay sent, nothing follows
C11_Witness ==
    /\ MultiReturned /\ call.op = "set_mfd_text"
    /\ Len(wire) = 8 /\ wire[8].kind = "control" /\ ~wire[8].ok
    /\ wire[8].err = "Timeout" /\ wire[7].ok
    /\ ~result.ok /\ result.err.maybe_id = "None"
    /\ result.err.source = "Timeout"

----------------------------------------------------------------------------
(* Claims about the 12h/24h flag of the clock offsets (SpecClock) *)

\* the value the clock operation of the last call transmits for a flag
ClockValue(use_24h) ==
    LET r == IF call.op = "set_clock_2_offset"
             THEN set_clock_2_offset(NewIo(0, "Busy"), call.offset, use_24h)
             ELSE set_clock_3_offset(NewIo(0, "Busy"), call.offset, use_24h)
    IN  r.io.wire[2].value

\* C12: for every in-range clock 2/3 offset, negative, zero or positive, bit
\* 15 of the transmitted value is 1 exactly when use_24h is true, so two calls
\* that differ only in use_24h transmit different values.
C12_Bit15IsThe24hFlag ==
    (ClockReturned /\ OffsetInRange) =>
        /\ \A k \in 1..Len(Controls) :
              Bit(Controls[k].value, 15) = (IF call.use_24h THEN 1 ELSE 0)
        /\ ClockValue(TRUE) # ClockValue(FALSE)

=============================================================================
